---- MODULE Spec2Model ----
(***************************************************************************)
(* Model of CS6650_hw1/aws-python-script.py: the sequential load test      *)
(* (load_test), its summary (summarize) and the driver (main).             *)
(*                                                                         *)
(* Time is an integer clock in milliseconds.  A request outcome is what    *)
(* session.get produces: a response carrying a status code, or a           *)
(* requests.RequestException carrying a message (str(e), never empty for   *)
(* the exceptions the requests library raises).  Status-code cells are     *)
(* modelled by their decimal text, which is what every comparison of       *)
(* summarize distinguishes ("" / 200 / "200" / anything else).             *)
(* Percentiles and ratios are exact rationals: a percentile is kept        *)
(* multiplied by 100, a ratio as numerator and denominator.                *)
(***************************************************************************)
EXTENDS Integers, Sequences, FiniteSets, TLC

\* ---- bounds of the model ----
MaxDuration == 1
MaxStart == 1
LatencyStep == 400
MaxLatencySteps == 3
SleepStep == 200

\* ---- program constants ----
MsPerSecond == 1000
DefaultSlowMs == 500
NoStatus == 0

StatusCodes == {200, 201, 404}
Str == (200 :> "200") @@ (201 :> "201") @@ (404 :> "404")
ErrorMessages == {"Connection refused"}

Durations == 0..MaxDuration
SleepChoices == {0, SleepStep}
SlowThresholds == {DefaultSlowMs, 2 * LatencyStep}
LatencyChoices == {k * LatencyStep : k \in 1..MaxLatencySteps}

\* what session.get(url, timeout=...) can do
Outcomes ==
    [kind : {"response"}, status : StatusCodes, msg : {""}]
      \cup [kind : {"exception"}, status : {NoStatus}, msg : ErrorMessages]

VARIABLES
    pc,                 \* position of main / load_test
    now,                \* the clock, ms
    duration_seconds, sleep_ms, slow_threshold_ms,   \* arguments
    end_time,           \* load_test: deadline, ms
    i,                  \* load_test: request counter
    start,              \* load_test: clock at dispatch of the request in flight
    rows,               \* load_test: recorded rows
    outcomes,           \* what each completed request actually did, in order
    summary,            \* what summarize printed
    ret,                \* what summarize returned
    plotted             \* main called plot

vars == <<pc, now, duration_seconds, sleep_ms, slow_threshold_ms, end_time, i,
          start, rows, outcomes, summary, ret, plotted>>

\* ---- helpers ----
Max(a, b) == IF a >= b THEN a ELSE b

RECURSIVE SumSeq(_)
SumSeq(s) == IF s = <<>> THEN 0 ELSE Head(s) + SumSeq(Tail(s))

RECURSIVE MaxSeq(_)
MaxSeq(s) == IF Len(s) = 1 THEN s[1] ELSE Max(Head(s), MaxSeq(Tail(s)))

RECURSIVE Insert(_, _)
Insert(x, s) ==
    IF s = <<>> THEN <<x>>
    ELSE IF x <= Head(s) THEN <<x>> \o s
    ELSE <<Head(s)>> \o Insert(x, Tail(s))

RECURSIVE Sorted(_)
Sorted(s) == IF s = <<>> THEN <<>> ELSE Insert(Head(s), Sorted(Tail(s)))

RECURSIVE Column(_, _)
Column(s, f) == IF s = <<>> THEN <<>> ELSE <<Head(s)[f]>> \o Column(Tail(s), f)

\* ---- load_test ----
LoopConditionLe(t, deadline) == t <= deadline
LoopCondition(t, deadline) == t < deadline

StatusCell(status) == IF status # NoStatus THEN Str[status] ELSE ""

MakeRowOffByOne(n, t, lat, status, err) ==
    [request_num |-> n - 1, timestamp_utc |-> t, latency_ms |-> lat,
     status_code |-> StatusCell(status), error |-> err]
MakeRow(n, t, lat, status, err) ==
    [request_num |-> n, timestamp_utc |-> t, latency_ms |-> lat,
     status_code |-> StatusCell(status), error |-> err]

RecordRowDropErrors(rs, row) == IF row.error # "" THEN rs ELSE Append(rs, row)
RecordRow(rs, row) == Append(rs, row)

AfterRequestAbortOnError(err) == IF err # "" THEN "returned" ELSE "loop"
AfterRequest(err) == "loop"

\* ---- summarize ----
IsLatencyRow(r) == r.error = "" /\ r.status_code # ""
IsErrorRow(r) == r.error # ""
IsNon200Row(r) == r.error = "" /\ r.status_code \notin {"", "200"}

LatenciesOf(rs) == Column(SelectSeq(rs, IsLatencyRow), "latency_ms")
ErrorsOf(rs) == SelectSeq(rs, IsErrorRow)
Non200Of(rs) == SelectSeq(rs, IsNon200Row)

\* np.percentile(arr, q), default linear interpolation between the order
\* statistics, times 100
Interpolate(arr, q) ==
    LET n == Len(arr)
        h == (n - 1) * q
        lo == (h \div 100) + 1
        hi == IF lo < n THEN lo + 1 ELSE lo
    IN  arr[lo] * 100 + (arr[hi] - arr[lo]) * (h % 100)
PercentileUnsorted(arr, q) == Interpolate(arr, q)
Percentile(arr, q) == Interpolate(Sorted(arr), q)

\* np.mean(arr > threshold) * 100.0, as a fraction
SlowPctGe(arr, threshold) ==
    [num |-> 100 * Cardinality({k \in 1..Len(arr) : arr[k] >= threshold}),
     den |-> Len(arr)]
SlowPct(arr, threshold) ==
    [num |-> 100 * Cardinality({k \in 1..Len(arr) : arr[k] > threshold}),
     den |-> Len(arr)]

NoStats == [p50 |-> 0, p95 |-> 0, p99 |-> 0, max |-> 0,
            mean |-> [num |-> 0, den |-> 1], slow_pct |-> [num |-> 0, den |-> 1]]
StatsOf(arr, threshold) ==
    [p50 |-> Percentile(arr, 50), p95 |-> Percentile(arr, 95),
     p99 |-> Percentile(arr, 99), max |-> MaxSeq(arr),
     mean |-> [num |-> SumSeq(arr), den |-> Len(arr)],
     slow_pct |-> SlowPct(arr, threshold)]

NoSummary == [printed |-> FALSE, total |-> 0, success |-> 0, non_200 |-> 0,
              errors |-> 0, has_stats |-> FALSE, stats |-> NoStats]
NoneRet == [is_none |-> TRUE, arr |-> <<>>]

\* ---- main ----
ArrIsNoneNever(r) == FALSE
ArrIsNone(r) == r.is_none

Init ==
    /\ pc = "main"
    /\ now \in 0..MaxStart
    /\ duration_seconds = 0
    /\ sleep_ms = 0
    /\ slow_threshold_ms = DefaultSlowMs
    /\ end_time = 0
    /\ i = 0
    /\ start = 0
    /\ rows = <<>>
    /\ outcomes = <<>>
    /\ summary = NoSummary
    /\ ret = NoneRet
    /\ plotted = FALSE

\* main parses the arguments and calls load_test, which runs up to its loop
StartLoadTest ==
    /\ pc = "main"
    /\ \E d \in Durations, s \in SleepChoices, th \in SlowThresholds :
          /\ duration_seconds' = d
          /\ sleep_ms' = s
          /\ slow_threshold_ms' = th
          /\ end_time' = now + d * MsPerSecond
    /\ rows' = <<>>
    /\ i' = 0
    /\ pc' = "loop"
    /\ UNCHANGED <<now, start, outcomes, summary, ret, plotted>>

\* the loop condition holds: count the request and send it.  Lines 26-34 run
\* without blocking, so the clock reading of the loop condition is the time of
\* dispatch (ts, start).
Dispatch ==
    /\ pc = "loop"
    /\ LoopCondition(now, end_time)
    /\ i' = i + 1
    /\ start' = now
    /\ pc' = "inflight"
    /\ UNCHANGED <<now, duration_seconds, sleep_ms, slow_threshold_ms, end_time,
                   rows, outcomes, summary, ret, plotted>>

\* session.get returns or raises; the row is recorded; the optional sleep
Complete ==
    /\ pc = "inflight"
    /\ \E o \in Outcomes, lat \in LatencyChoices :
          LET status == IF o.kind = "response" THEN o.status ELSE NoStatus
              err == IF o.kind = "exception" THEN o.msg ELSE ""
              latency_ms == (now + lat) - start
          IN  /\ rows' = RecordRow(rows, MakeRow(i, start, latency_ms, status, err))
              /\ outcomes' = Append(outcomes, o)
              /\ now' = now + lat + (IF sleep_ms > 0 THEN sleep_ms ELSE 0)
              /\ pc' = AfterRequest(err)
    /\ UNCHANGED <<duration_seconds, sleep_ms, slow_threshold_ms, end_time, i,
                   start, summary, ret, plotted>>

\* the loop condition fails: load_test returns rows, main writes the CSV
LoopExit ==
    /\ pc = "loop"
    /\ ~LoopCondition(now, end_time)
    /\ pc' = "returned"
    /\ UNCHANGED <<now, duration_seconds, sleep_ms, slow_threshold_ms, end_time,
                   i, start, rows, outcomes, summary, ret, plotted>>

Summarize ==
    /\ pc = "returned"
    /\ LET latencies == LatenciesOf(rows)
           counts == [printed |-> TRUE, total |-> Len(rows),
                      success |-> Len(latencies),
                      non_200 |-> Len(Non200Of(rows)),
                      errors |-> Len(ErrorsOf(rows))]
       IN  IF latencies = <<>>
           THEN /\ summary' = counts @@ [has_stats |-> FALSE, stats |-> NoStats]
                /\ ret' = NoneRet
           ELSE /\ summary' = counts @@ [has_stats |-> TRUE,
                                          stats |-> StatsOf(latencies, slow_threshold_ms)]
                /\ ret' = [is_none |-> FALSE, arr |-> latencies]
    /\ pc' = "summarized"
    /\ UNCHANGED <<now, duration_seconds, sleep_ms, slow_threshold_ms, end_time,
                   i, start, rows, outcomes, plotted>>

\* main: arr is None, return without plotting
MainReturnNoData ==
    /\ pc = "summarized"
    /\ ArrIsNone(ret)
    /\ pc' = "done"
    /\ UNCHANGED <<now, duration_seconds, sleep_ms, slow_threshold_ms, end_time,
                   i, start, rows, outcomes, summary, ret, plotted>>

\* main: plot(arr)
MainPlot ==
    /\ pc = "summarized"
    /\ ~ArrIsNone(ret)
    /\ plotted' = TRUE
    /\ pc' = "done"
    /\ UNCHANGED <<now, duration_seconds, sleep_ms, slow_threshold_ms, end_time,
                   i, start, rows, outcomes, summary, ret>>

Next ==
    \/ StartLoadTest
    \/ Dispatch
    \/ Complete
    \/ LoopExit
    \/ Summarize
    \/ MainReturnNoData
    \/ MainPlot

Spec == Init /\ [][Next]_vars

TypeOK ==
    /\ pc \in {"main", "loop", "inflight", "returned", "summarized", "done"}
    /\ now \in Nat /\ i \in Nat /\ end_time \in Nat
    /\ Len(outcomes) = Len(rows)

\* ---- properties ----
Finished == pc \in {"returned", "summarized", "done"}
Responded(k) == outcomes[k].kind = "response"
Failed(k) == outcomes[k].kind = "exception"
Recorded == 1..Len(rows)

\* C1: the counts summarize reports satisfy
\* total == success + non_success + error, for every run.
C1_ExactAccounting ==
    summary.printed =>
        summary.total = summary.success + summary.non_200 + summary.errors

\* C2: the k-th recorded row carries request_num k, so the request_num values
\* are exactly 1..total, without duplicates or gaps, for every mix of outcomes.
C2_ContiguousRequestNums ==
    /\ \A k \in Recorded : rows[k].request_num = k
    /\ {rows[k].request_num : k \in Recorded} = 1..Len(rows)
    /\ Cardinality({rows[k].request_num : k \in Recorded}) = Len(rows)

C2_Witness ==
    /\ Finished
    /\ Len(rows) >= 3
    /\ \E k \in Recorded : Failed(k)
    /\ \E k \in Recorded : Responded(k) /\ outcomes[k].status = 200
    /\ \E k \in Recorded : Responded(k) /\ outcomes[k].status # 200

\* C3: between loop iterations (and after the loop) the number of recorded
\* rows equals the number of dispatched requests i; while a request is in
\* flight exactly that one is missing; a request that ended in a request
\* exception has its own row, with a non-empty error and an empty status_code.
C3_OneRowPerRequest ==
    /\ (pc = "loop" \/ Finished) => Len(rows) = i
    /\ pc = "inflight" => Len(rows) = i - 1
    /\ Len(outcomes) = Len(rows)
    /\ \A k \in Recorded :
          Failed(k) => /\ rows[k].error # ""
                       /\ rows[k].status_code = ""
                       /\ rows[k].request_num = k

C3_Witness ==
    /\ pc = "loop"
    /\ Len(rows) >= 2
    /\ \E k \in Recorded : Failed(k) /\ rows[k].error # ""
    /\ \E k \in Recorded : Responded(k)

\* C4: summarize counts a responded row as success exactly when its status
\* is in 200..299 and as non-success exactly when it is outside 200..299.
C4_ClassifiedBy2xx ==
    summary.printed =>
        /\ summary.success =
              Cardinality({k \in Recorded : Responded(k)
                              /\ outcomes[k].status \in 200..299})
        /\ summary.non_200 =
              Cardinality({k \in Recorded : Responded(k)
                              /\ outcomes[k].status \notin 200..299})

\* C5: a run started with a non-positive duration dispatches no request,
\* records no row and does not complete as a normal run (load_test does not
\* return to main, summarize does not run): it ends in a configuration error.
C5_ConfigErrorAborts ==
    (pc # "main" /\ duration_seconds <= 0) =>
        /\ i = 0
        /\ rows = <<>>
        /\ ~Finished

\* C6: when every request failed with a request exception (also when no row
\* was recorded) summarize reports total == errors and success == 0, computes
\* no statistics and returns None, and main does not plot.
C6_NoDataWhenAllFail ==
    (summary.printed /\ \A k \in Recorded : Failed(k)) =>
        /\ summary.total = Len(rows)
        /\ summary.total = summary.errors
        /\ summary.success = 0
        /\ ~summary.has_stats
        /\ ret.is_none
        /\ ~plotted

C6_Witness ==
    /\ pc = "done"
    /\ Len(rows) >= 2
    /\ \A k \in Recorded : Failed(k)
    /\ summary.errors = Len(rows)
    /\ ~plotted

\* C7: a request that ends in a request exception leaves load_test in its
\* loop; whenever the loop condition is evaluated before the deadline another
\* request is dispatched; load_test has returned only at or after the deadline.
C7_FailureNeverAborts ==
    /\ [][(pc = "inflight" /\ Len(outcomes') = Len(outcomes) + 1
             /\ outcomes'[Len(outcomes')].kind = "exception") => pc' = "loop"]_vars
    /\ []((pc = "loop" /\ now < end_time) => ENABLED Dispatch)
    /\ [](Finished => now >= end_time)

C7_Witness ==
    /\ pc = "inflight"
    /\ Len(rows) >= 1
    /\ Failed(Len(rows))
    /\ i = Len(rows) + 1

\* C8: every request, recorded or in flight, was dispatched at a clock time
\* strictly before the deadline (with or without the inter-request sleep);
\* at a loop-condition check at or after the deadline nothing is dispatched
\* and the loop exits; a request in flight across the deadline is recorded.
C8_NoDispatchAfterDeadline ==
    /\ \A k \in Recorded : rows[k].timestamp_utc < end_time
    /\ pc = "inflight" => start < end_time
    /\ (pc = "loop" /\ now >= end_time) => (~ENABLED Dispatch /\ ENABLED LoopExit)
    /\ (pc = "loop" \/ Finished) => Len(rows) = i

C8_Witness ==
    /\ Finished
    /\ sleep_ms > 0
    /\ Len(rows) >= 2
    /\ \E k \in Recorded :
          /\ rows[k].timestamp_utc < end_time
          /\ rows[k].timestamp_utc + rows[k].latency_ms > end_time

SlowRows == {k \in Recorded : rows[k].latency_ms > slow_threshold_ms}

\* C9 (as claimed): the reported slow percentage is 100 times the fraction of
\* all the run's samples, failed ones included, whose latency exceeds the
\* threshold.
C9_SlowPctOverAllSamples ==
    summary.has_stats =>
        summary.stats.slow_pct.num * Len(rows) =
            100 * Cardinality(SlowRows) * summary.stats.slow_pct.den

\* C9 (amended): when summarize reports statistics, the slow percentage is
\* 100 times the fraction, among the samples that received a response, of
\* those whose latency exceeds the threshold; samples that ended in a request
\* exception count neither in the numerator nor in the denominator.
C9_SlowPctOverResponses ==
    summary.has_stats =>
        /\ summary.stats.slow_pct.den = Cardinality({k \in Recorded : Responded(k)})
        /\ summary.stats.slow_pct.den > 0
        /\ summary.stats.slow_pct.num =
              100 * Cardinality({k \in SlowRows : Responded(k)})

C9_Witness ==
    /\ summary.has_stats
    /\ \E k \in SlowRows : Failed(k)
    /\ \E k \in SlowRows : Responded(k)
    /\ summary.stats.slow_pct.num = 100 * summary.stats.slow_pct.den

\* C10: over a non-empty latency set, p50 <= p95 <= p99 <= max, where max is
\* the largest latency of the set (percentiles are kept multiplied by 100).
C10_PercentilesOrdered ==
    summary.has_stats =>
        /\ ret.arr # <<>>
        /\ summary.stats.p50 <= summary.stats.p95
        /\ summary.stats.p95 <= summary.stats.p99
        /\ summary.stats.p99 <= 100 * summary.stats.max
        /\ \A k \in 1..Len(ret.arr) : ret.arr[k] <= summary.stats.max
        /\ \E k \in 1..Len(ret.arr) : ret.arr[k] = summary.stats.max

C10_Witness ==
    /\ summary.has_stats
    /\ Len(ret.arr) >= 2
    /\ ret.arr[1] > ret.arr[2]
    /\ summary.stats.p50 < summary.stats.p95
    /\ summary.stats.p95 < summary.stats.p99
    /\ summary.stats.p99 < 100 * summary.stats.max
====
